---- MODULE Spec2Model ----
(***************************************************************************)
(* Model of the Databricks ADBC driver (rust/src): the CloudFetch reader,  *)
(* the in-memory ResultSet and the Statement, as state machines whose      *)
(* actions are the public methods of each type.                            *)
(***************************************************************************)
EXTENDS Integers, Sequences, FiniteSets, TLC

\* ------------------------------------------------------------------ bounds
\* Longest list of chunk links a reader is constructed with.
MaxLinks == 5
\* Most next_batch calls made on one CloudFetchReader.
MaxPulls == 6
\* Largest parallel_downloads / prefetch_count a configuration is drawn with.
MaxParallel == 3
MaxPrefetch == 2
\* Declared byte size of every chunk link.
ChunkSize == 1
\* Longest batch list of a ResultSet, and the number of distinct batch values.
MaxBatches == 3
NumBatchValues == 2
\* Most operations applied to one ResultSet.
MaxSteps == 5
\* Most set_option calls made on one Database.
MaxOpts == 3
\* Most get_auth_header calls made on one provider.
MaxAuthCalls == 8

\* ------------------------------------------------------------- results
\* Result<T>: Ok carries an Option as a sequence of length 0 or 1; Err carries
\* the ADBC status and the message of the error helper.
Ok(v) == [status |-> "Ok", value |-> v, message |-> ""]
OkNone == Ok(<<>>)
OkUnit == Ok(<<>>)
OkSome(x) == Ok(<<x>>)

\* DatabricksErrorHelper::not_implemented().message(msg): status NotImplemented.
NotImplemented(msg) == [status |-> "NotImplemented", value |-> <<>>, message |-> msg]

\* The other error helpers of driverbase the driver uses; the status names the
\* helper, the message what it was called with.
SetUnknownOption(key) == [status |-> "UnknownOption", value |-> <<>>, message |-> key]
GetUnknownOption(key) == [status |-> "UnknownOption", value |-> <<>>, message |-> key]
SetInvalidOption(key, value) ==
    [status |-> "InvalidOption", value |-> <<>>, message |-> key]
InvalidState(msg) == [status |-> "InvalidState", value |-> <<>>, message |-> msg]

\* OptionValue: a String carrying its text, or one of the other variants.
Strings == {"x", "y"}
OptionValues ==
    [type : {"String"}, s : Strings] \cup [type : {"Int", "Double", "Bytes"}, s : {"1"}]

\* The value that stands for "no operation has returned yet".
NoResult == [status |-> "NoResult", value |-> <<>>, message |-> ""]

\* ------------------------------------------------------- CloudFetchConfig
DefaultParallelDownloads == 3
DefaultPrefetchCount == 2
DefaultMaxBufferSize == 200 * 1024 * 1024

CloudFetchConfigDefault ==
    [parallel_downloads |-> DefaultParallelDownloads,
     prefetch_count |-> DefaultPrefetchCount,
     max_buffer_size |-> DefaultMaxBufferSize]

\* The configurations a reader is constructed with.
Configs ==
    {CloudFetchConfigDefault} \cup
    [parallel_downloads : 1..MaxParallel,
     prefetch_count : 1..MaxPrefetch,
     max_buffer_size : {DefaultMaxBufferSize}]

\* --------------------------------------------------------- CloudFetchLink
\* The link list of n chunks: chunk i (0-based) is the i+1-th element.
CloudFetchLink(i) == [url |-> i, offset |-> i * ChunkSize, size |-> ChunkSize]
MkLinks(n) == [i \in 1..n |-> CloudFetchLink(i - 1)]

\* ------------------------------------------------------- CloudFetchReader
CloudFetchReaderNew(config, links) ==
    [config |-> config, links |-> links, current_index |-> 0]

link_count(self) == Len(self.links)

\* A next_batch whose end test is off by one (> for >=).
CloudFetchReaderNextBatch_OffByOne(self) ==
    IF self.current_index > Len(self.links)
    THEN [self |-> self, result |-> OkNone]
    ELSE [self |-> self, result |-> NotImplemented("CloudFetch download")]

\* A next_batch that steps over the link whose download it could not make.
CloudFetchReaderNextBatch_SkipsLink(self) ==
    IF self.current_index >= Len(self.links)
    THEN [self |-> self, result |-> OkNone]
    ELSE [self |-> [self EXCEPT !.current_index = @ + 1],
          result |-> NotImplemented("CloudFetch download")]

\* next_batch: Ok(None) once the position is at or past the end of the links,
\* otherwise the not-implemented error; the reader itself is never written.
CloudFetchReaderNextBatch(self) ==
    IF self.current_index >= Len(self.links)
    THEN [self |-> self, result |-> OkNone]
    ELSE [self |-> self, result |-> NotImplemented("CloudFetch download")]

\* -------------------------------------------------------------- Statement
None == "None"
Queries == {"SELECT 1", "SELECT 2"}

StatementNew == [query |-> None]

sql_query(self) == self.query

\* A set_sql_query that keeps a query already set (get_or_insert).
StatementSetSqlQuery_KeepsFirst(self, q) ==
    [self |-> [self EXCEPT !.query = IF @ = None THEN q ELSE @],
     result |-> OkUnit]

\* An execute that hands back the empty reader once a query is set.
StatementExecute_EmptyReader(self) ==
    IF self.query = None
    THEN [self |-> self, result |-> NotImplemented("execute")]
    ELSE [self |-> self, result |-> OkSome("EmptyReader")]

StatementSetSqlQuery(self, q) ==
    [self |-> [self EXCEPT !.query = q], result |-> OkUnit]

\* An execute that consumes the query text (query.take()) before failing.
StatementExecute_TakesQuery(self) ==
    [self |-> [self EXCEPT !.query = None], result |-> NotImplemented("execute")]

StatementExecute(self) ==
    [self |-> self, result |-> NotImplemented("execute")]

StatementCancel(self) ==
    [self |-> self, result |-> OkUnit]

\* A prepare that succeeds once a query is set.
StatementPrepare_Accepts(self) ==
    IF self.query = None
    THEN [self |-> self, result |-> NotImplemented("prepare")]
    ELSE [self |-> self, result |-> OkUnit]

\* The unsupported features: each returns the not-implemented error and
\* writes nothing.
StatementSetSubstraitPlan(self) ==
    [self |-> self, result |-> NotImplemented("Substrait plans")]

StatementPrepare(self) ==
    [self |-> self, result |-> NotImplemented("prepare")]

StatementGetParameterSchema(self) ==
    [self |-> self, result |-> NotImplemented("get_parameter_schema")]

StatementBind(self) ==
    [self |-> self, result |-> NotImplemented("bind parameters")]

StatementBindStream(self) ==
    [self |-> self, result |-> NotImplemented("bind_stream")]

StatementExecuteUpdate(self) ==
    [self |-> self, result |-> NotImplemented("execute_update")]

StatementExecuteSchema(self) ==
    [self |-> self, result |-> NotImplemented("execute_schema")]

StatementExecutePartitions(self) ==
    [self |-> self, result |-> NotImplemented("execute_partitions")]

\* Optionable for Statement: no option is known.
StatementOptionKeys == {"adbc.ingest.target_table", "adbc.statement.exec.incremental"}

StatementSetOption(self, key, value) ==
    [self |-> self, result |-> SetUnknownOption(key)]

StatementGetOption(self, key) ==
    [self |-> self, result |-> GetUnknownOption(key)]

\* The lifecycle states the Statement struct can represent: its only field is
\* the optional query text.
StatementState(self) == IF self.query = None THEN "Idle" ELSE "Prepared"

\* -------------------------------------------------------------- ResultSet
Schemas == {"schema_a", "schema_b"}
BatchValues == 1..NumBatchValues
BatchLists == UNION {[1..n -> BatchValues] : n \in 0..MaxBatches}

ResultSetEmpty == [schema |-> None, batches |-> <<>>, current_index |-> 0]

ResultSetNew(schema, batches) ==
    [schema |-> schema, batches |-> batches, current_index |-> 0]

schema(self) == self.schema
batch_count(self) == Len(self.batches)

\* A next_batch whose end test is off by one: the last batch is never
\* handed out.
ResultSetNextBatch_OffByOne(self) ==
    IF self.current_index + 1 >= Len(self.batches)
    THEN [self |-> self, result |-> OkNone]
    ELSE [self |-> [self EXCEPT !.current_index = @ + 1],
          result |-> OkSome(self.batches[self.current_index + 1])]

\* A next_batch that forgets to advance the cursor.
ResultSetNextBatch_NoAdvance(self) ==
    IF self.current_index >= Len(self.batches)
    THEN [self |-> self, result |-> OkNone]
    ELSE [self |-> self,
          result |-> OkSome(self.batches[self.current_index + 1])]

\* next_batch: Ok(None) at or past the end, otherwise the batch under the
\* cursor, and the cursor moves on by one.
ResultSetNextBatch(self) ==
    IF self.current_index >= Len(self.batches)
    THEN [self |-> self, result |-> OkNone]
    ELSE [self |-> [self EXCEPT !.current_index = @ + 1],
          result |-> OkSome(self.batches[self.current_index + 1])]

\* reset: the cursor goes back to the first batch.
ResultSetReset(self) ==
    [self |-> [self EXCEPT !.current_index = 0], result |-> OkUnit]

\* A close that also drops the schema.
ResultSetClose_DropsSchema(self) ==
    [self |-> [self EXCEPT !.schema = None, !.batches = <<>>, !.current_index = 0],
     result |-> OkUnit]

\* A close that drops only the last batch (pop() for clear()).
ResultSetClose_Pop(self) ==
    [self |-> [self EXCEPT
                 !.batches = IF @ = <<>> THEN @ ELSE SubSeq(@, 1, Len(@) - 1),
                 !.current_index = 0],
     result |-> OkUnit]

\* A close that clears the batch list and leaves the cursor where it was.
ResultSetClose_KeepsCursor(self) ==
    [self |-> [self EXCEPT !.batches = <<>>], result |-> OkUnit]

\* close: the batch list is cleared and the cursor goes back to 0.
ResultSetClose(self) ==
    [self |-> [self EXCEPT !.batches = <<>>, !.current_index = 0],
     result |-> OkUnit]

\* --------------------------------------------------------------- Database
\* OptionDatabase: the built-in Uri and Username keys, and Other(name).
OptionKey(variant, name) == [variant |-> variant, name |-> name]
KeyUri == OptionKey("Uri", "uri")
KeyUsername == OptionKey("Username", "username")
KeyHttpPath == OptionKey("Other", "databricks.http_path")
KeyAccessToken == OptionKey("Other", "databricks.access_token")
KeyCatalog == OptionKey("Other", "databricks.catalog")
KeySchema == OptionKey("Other", "databricks.schema")
\* Other(name) keys for the CloudFetch settings; the driver names no such key.
KeyParallelDownloads == OptionKey("Other", "databricks.parallel_downloads")
KeyPrefetchCount == OptionKey("Other", "databricks.prefetch_count")
KeyMaxBufferSize == OptionKey("Other", "databricks.max_buffer_size")

DatabaseKeys ==
    {KeyUri, KeyUsername, KeyHttpPath, KeyAccessToken, KeyCatalog, KeySchema,
     KeyParallelDownloads, KeyPrefetchCount, KeyMaxBufferSize}

\* The values set_option is called with on a Database.
DatabaseValues == {v \in OptionValues : v.type \in {"String", "Int"}}

OptStrings == {None} \cup Strings

DatabaseNew ==
    [uri |-> None, http_path |-> None, access_token |-> None,
     catalog |-> None, schema |-> None]

\* A set_option whose databricks.catalog arm writes the schema field.
DatabaseSetOption_CatalogWritesSchema(self, key, value) ==
    IF key.variant \notin {"Uri", "Other"}
       \/ (key.variant = "Other" /\
           key.name \notin {"databricks.http_path", "databricks.access_token",
                            "databricks.catalog", "databricks.schema"})
    THEN [self |-> self, result |-> SetUnknownOption(key.name)]
    ELSE IF value.type # "String"
    THEN [self |-> self, result |-> SetInvalidOption(key.name, value)]
    ELSE [self |-> CASE key.variant = "Uri" -> [self EXCEPT !.uri = value.s]
                     [] key.name = "databricks.http_path" ->
                            [self EXCEPT !.http_path = value.s]
                     [] key.name = "databricks.access_token" ->
                            [self EXCEPT !.access_token = value.s]
                     [] OTHER -> [self EXCEPT !.schema = value.s],
          result |-> OkUnit]

\* A set_option that takes the old value out of the field before it looks
\* at the type of the new one.
DatabaseSetOption_ClearsOnInvalid(self, key, value) ==
    IF key.variant \notin {"Uri", "Other"}
       \/ (key.variant = "Other" /\
           key.name \notin {"databricks.http_path", "databricks.access_token",
                            "databricks.catalog", "databricks.schema"})
    THEN [self |-> self, result |-> SetUnknownOption(key.name)]
    ELSE LET s == IF value.type = "String" THEN value.s ELSE None IN
         [self |-> CASE key.variant = "Uri" -> [self EXCEPT !.uri = s]
                     [] key.name = "databricks.http_path" ->
                            [self EXCEPT !.http_path = s]
                     [] key.name = "databricks.access_token" ->
                            [self EXCEPT !.access_token = s]
                     [] key.name = "databricks.catalog" ->
                            [self EXCEPT !.catalog = s]
                     [] OTHER -> [self EXCEPT !.schema = s],
          result |-> IF value.type = "String"
                     THEN OkUnit
                     ELSE SetInvalidOption(key.name, value)]

\* set_option: the match on the key, and in each arm the test that the value
\* is a String.
DatabaseSetOption(self, key, value) ==
    CASE key.variant = "Uri" ->
            IF value.type = "String"
            THEN [self |-> [self EXCEPT !.uri = value.s], result |-> OkUnit]
            ELSE [self |-> self, result |-> SetInvalidOption(key.name, value)]
      [] key.variant = "Other" /\ key.name = "databricks.http_path" ->
            IF value.type = "String"
            THEN [self |-> [self EXCEPT !.http_path = value.s], result |-> OkUnit]
            ELSE [self |-> self, result |-> SetInvalidOption(key.name, value)]
      [] key.variant = "Other" /\ key.name = "databricks.access_token" ->
            IF value.type = "String"
            THEN [self |-> [self EXCEPT !.access_token = value.s], result |-> OkUnit]
            ELSE [self |-> self, result |-> SetInvalidOption(key.name, value)]
      [] key.variant = "Other" /\ key.name = "databricks.catalog" ->
            IF value.type = "String"
            THEN [self |-> [self EXCEPT !.catalog = value.s], result |-> OkUnit]
            ELSE [self |-> self, result |-> SetInvalidOption(key.name, value)]
      [] key.variant = "Other" /\ key.name = "databricks.schema" ->
            IF value.type = "String"
            THEN [self |-> [self EXCEPT !.schema = value.s], result |-> OkUnit]
            ELSE [self |-> self, result |-> SetInvalidOption(key.name, value)]
      [] OTHER -> [self |-> self, result |-> SetUnknownOption(key.name)]

\* ok_or_else: the field's text, or the invalid-state error when it is None.
OkOrNotSet(field, name) ==
    IF field = None
    THEN InvalidState("option '" \o name \o "' is not set")
    ELSE OkSome(field)

\* A get_option_string with an arm for databricks.access_token.
DatabaseGetOptionString_ReadsToken(self, key) ==
    CASE key.variant = "Uri" -> OkOrNotSet(self.uri, "uri")
      [] key.variant = "Other" /\ key.name = "databricks.http_path" ->
            OkOrNotSet(self.http_path, key.name)
      [] key.variant = "Other" /\ key.name = "databricks.access_token" ->
            OkOrNotSet(self.access_token, key.name)
      [] key.variant = "Other" /\ key.name = "databricks.catalog" ->
            OkOrNotSet(self.catalog, key.name)
      [] key.variant = "Other" /\ key.name = "databricks.schema" ->
            OkOrNotSet(self.schema, key.name)
      [] OTHER -> GetUnknownOption(key.name)

\* get_option_string: uri, http_path, catalog and schema have an arm; every
\* other key, databricks.access_token among them, is an unknown option.
DatabaseGetOptionString(self, key) ==
    CASE key.variant = "Uri" -> OkOrNotSet(self.uri, "uri")
      [] key.variant = "Other" /\ key.name = "databricks.http_path" ->
            OkOrNotSet(self.http_path, key.name)
      [] key.variant = "Other" /\ key.name = "databricks.catalog" ->
            OkOrNotSet(self.catalog, key.name)
      [] key.variant = "Other" /\ key.name = "databricks.schema" ->
            OkOrNotSet(self.schema, key.name)
      [] OTHER -> GetUnknownOption(key.name)

\* get_option_bytes / _int / _double: no key is readable.
DatabaseGetOptionBytes(self, key) == GetUnknownOption(key.name)
DatabaseGetOptionInt(self, key) == GetUnknownOption(key.name)
DatabaseGetOptionDouble(self, key) == GetUnknownOption(key.name)

\* The four getters, by the type they read.
GetKinds == {"string", "bytes", "int", "double"}
DatabaseGetOption(kind, self, key) ==
    CASE kind = "string" -> DatabaseGetOptionString(self, key)
      [] kind = "bytes" -> DatabaseGetOptionBytes(self, key)
      [] kind = "int" -> DatabaseGetOptionInt(self, key)
      [] OTHER -> DatabaseGetOptionDouble(self, key)

\* ----------------------------------------------------------------- Driver
\* Result<Database>: the Database as a sequence of length 0 or 1.
OkDatabase(d) == [database |-> <<d>>, result |-> OkUnit]
ErrDatabase(e) == [database |-> <<>>, result |-> e]

DriverNewDatabase == OkDatabase(DatabaseNew)

\* The loop of new_database_with_opts: `?` returns the first error.
RECURSIVE SetOptions(_, _)
SetOptions(database, opts) ==
    IF opts = <<>>
    THEN OkDatabase(database)
    ELSE LET r == DatabaseSetOption(database, Head(opts).key, Head(opts).value) IN
         IF r.result.status # "Ok"
         THEN ErrDatabase(r.result)
         ELSE SetOptions(r.self, Tail(opts))

\* The same loop with the result of set_option dropped.
RECURSIVE SetOptionsUnchecked(_, _)
SetOptionsUnchecked(database, opts) ==
    IF opts = <<>>
    THEN OkDatabase(database)
    ELSE SetOptionsUnchecked(
             DatabaseSetOption(database, Head(opts).key, Head(opts).value).self,
             Tail(opts))

\* A new_database_with_opts that ignores the errors of set_option.
DriverNewDatabaseWithOpts_IgnoresErrors(opts) ==
    SetOptionsUnchecked(DatabaseNew, opts)

DriverNewDatabaseWithOpts(opts) == SetOptions(DatabaseNew, opts)

\* ------------------------------------------------------------- Connection
ConnectionNew(uri, http_path, access_token, catalog, schema_name) ==
    [uri |-> uri, http_path |-> http_path, access_token |-> access_token,
     catalog |-> catalog, schema |-> schema_name]

\* A new_connection that passes schema and catalog in each other's place.
DatabaseNewConnection_SwapsCatalogSchema(self) ==
    [connection |-> <<ConnectionNew(self.uri, self.http_path, self.access_token,
                                    self.schema, self.catalog)>>,
     result |-> OkUnit]

\* Result<Connection>: the Connection as a sequence of length 0 or 1.
\* new_connection takes &self: the Database is read, never written.
DatabaseNewConnection(self) ==
    [connection |-> <<ConnectionNew(self.uri, self.http_path, self.access_token,
                                    self.catalog, self.schema)>>,
     result |-> OkUnit]

\* Every Database the options can produce.
Databases ==
    [uri : OptStrings, http_path : OptStrings, access_token : OptStrings,
     catalog : OptStrings, schema : OptStrings]

\* OptionConnection: AutoCommit, another built-in key, and Other(name).
KeyAutoCommit == OptionKey("AutoCommit", "adbc.connection.autocommit")
KeyReadOnly == OptionKey("ReadOnly", "adbc.connection.readonly")
KeyOtherConnection == OptionKey("Other", "databricks.other")
ConnectionKeys == {KeyAutoCommit, KeyReadOnly, KeyOtherConnection}

\* set_option: AutoCommit is accepted and ignored, every other key is unknown.
ConnectionSetOption(self, key, value) ==
    IF key.variant = "AutoCommit"
    THEN [self |-> self, result |-> OkUnit]
    ELSE [self |-> self, result |-> SetUnknownOption(key.name)]

ConnectionGetOption(self, key) ==
    [self |-> self, result |-> GetUnknownOption(key.name)]

ConnectionNewStatement(self) ==
    [self |-> self, result |-> OkSome(StatementNew)]

ConnectionCancel(self) == [self |-> self, result |-> OkUnit]

ConnectionCommit(self) == [self |-> self, result |-> OkUnit]

\* A rollback that is accepted like commit.
ConnectionRollback_Accepts(self) == [self |-> self, result |-> OkUnit]

ConnectionRollback(self) ==
    [self |-> self,
     result |-> NotImplemented("rollback - Databricks SQL is auto-commit only")]

\* get_objects, get_table_schema, get_table_types, read_partition,
\* get_statistic_names, get_statistics.
ConnectionMetadataOps ==
    {"get_objects", "get_table_schema", "get_table_types", "read_partition",
     "get_statistic_names", "get_statistics"}
ConnectionMetadata(self, op) == [self |-> self, result |-> NotImplemented(op)]

\* ------------------------------------------------------------------- auth
Tokens == {"test-token", "dapi-0123", ""}
ClientIds == {"client-id", "other-id"}
ClientSecrets == {"client-secret", "other-secret"}
TokenEndpoints == {"https://example.com/oauth/token", "https://example.org/token"}

PersonalAccessTokenNew(token) == [kind |-> "pat", token |-> token]

OAuthCredentialsNew(client_id, client_secret) ==
    [kind |-> "oauth", client_id |-> client_id, client_secret |-> client_secret,
     token_endpoint |-> None]

with_token_endpoint(self, endpoint) == [self EXCEPT !.token_endpoint = endpoint]

\* A header built without the space after the scheme.
PersonalAccessTokenGetAuthHeader_NoSpace(self) == OkSome("Bearer" \o self.token)

\* format!("Bearer {}", self.token)
PersonalAccessTokenGetAuthHeader(self) == OkSome("Bearer " \o self.token)

OAuthCredentialsGetAuthHeader(self) ==
    NotImplemented("OAuth token fetching not yet implemented")

\* AuthProvider::get_auth_header, dispatched on the provider.
GetAuthHeader(self) ==
    IF self.kind = "pat"
    THEN PersonalAccessTokenGetAuthHeader(self)
    ELSE OAuthCredentialsGetAuthHeader(self)

\* ------------------------------------------------------------------ state
VARIABLES
    reader,         \* the CloudFetchReader
    reader_result,  \* what its latest next_batch returned
    pulls,          \* number of next_batch calls made on it
    delivered,      \* sequence indexes of the batches it has handed out, in order
    failing,        \* the chunk whose download fails in object storage (-1: none)
    stmt,           \* the Statement
    stmt_last,      \* its latest operation: name, result, Statement before it
    last_op,        \* the latest operation on either object
    prev_op,        \* the operation before that
    last_query_set, \* the text of the latest set_sql_query call (None: no call)
    rs,             \* the ResultSet
    rs_log,         \* the operations applied to it, oldest first
    rs_ctor,        \* the constructor call that made it
    db,             \* the Database
    db_opts,        \* the set_option calls DbSetOption made: (key, value), oldest first
    db_set,         \* per key name, the text of the latest successful one
    db_first_err,   \* the error of the first of them that failed
    db_last,        \* the latest of them: key, value, result, Database before
    built,          \* what new_database_with_opts(db_opts) returned
    db_get,         \* its latest get_option_*: getter, key, result, Database read
    conn,           \* the Connection
    conn_last,      \* its latest operation: name, key, value, result, Connection before
    conn_db,        \* the Database as it was when new_connection made conn
    conn_stmt,      \* the Statement made by conn.new_statement()
    auth,           \* the authentication provider
    auth_last,      \* what its latest get_auth_header returned
    auth_calls      \* number of get_auth_header calls made on it

stream_vars == <<reader, reader_result, pulls, delivered, failing, stmt,
                 stmt_last, last_op, prev_op, last_query_set>>
rs_vars == <<rs, rs_log, rs_ctor>>
db_vars == <<db, db_opts, db_set, db_first_err, db_last, built, db_get>>
conn_vars == <<conn, conn_last, conn_db, conn_stmt>>
auth_vars == <<auth, auth_last, auth_calls>>
rest_vars == <<db_vars, conn_vars, auth_vars>>
vars == <<stream_vars, rs_vars, rest_vars>>

NoChunk == 0 - 1

\* The value of built before new_database_with_opts is called.
NoBuilt == [database |-> <<>>, result |-> NoResult]

\* The value of db_get before any getter is called.
NoGet == [kind |-> "none", key |-> KeyUri, result |-> NoResult,
          before |-> DatabaseNew]

\* The Database made by Driver::new_database(), no option set yet.
InitDb ==
    /\ db = DriverNewDatabase.database[1]
    /\ db_opts = <<>>
    /\ db_set = [k \in {key.name : key \in DatabaseKeys} |-> None]
    /\ db_first_err = NoResult
    /\ db_last = [op |-> "new", key |-> KeyUri, value |-> [type |-> "Int", s |-> "1"],
                  result |-> NoResult, before |-> DatabaseNew]
    /\ built = NoBuilt
    /\ db_get = NoGet

NoOption == [key |-> KeyAutoCommit, value |-> [type |-> "Int", s |-> "1"]]

\* The value of conn_last when the Connection c has just been made.
ConnMade(c) == [op |-> "new", key |-> NoOption.key, value |-> NoOption.value,
                result |-> NoResult, before |-> c]

\* No new_connection call yet: conn holds the fields of a Database with no
\* option set.
IdleConn ==
    /\ conn = DatabaseNewConnection(DatabaseNew).connection[1]
    /\ conn_last = ConnMade(conn)
    /\ conn_db = <<>>
    /\ conn_stmt = <<>>

IdleAuth ==
    /\ auth = PersonalAccessTokenNew("test-token")
    /\ auth_last = NoResult
    /\ auth_calls = 0

\* The objects that a specification does not exercise.
IdleRest == InitDb /\ IdleConn /\ IdleAuth

\* ------------------------------------------ Statement and CloudFetchReader
InitStream ==
    /\ \E c \in Configs, n \in 0..MaxLinks :
          reader = CloudFetchReaderNew(c, MkLinks(n))
    /\ failing \in {NoChunk} \cup (0..(Len(reader.links) - 1))
    /\ reader_result = NoResult
    /\ pulls = 0
    /\ delivered = <<>>
    /\ stmt = StatementNew
    /\ stmt_last = [op |-> "new", result |-> NoResult, before |-> StatementNew]
    /\ last_op = "new"
    /\ prev_op = "new"
    /\ last_query_set = None

\* reader.next_batch()
NextBatch ==
    /\ pulls < MaxPulls
    /\ LET r == CloudFetchReaderNextBatch(reader) IN
          /\ reader' = r.self
          /\ reader_result' = r.result
          /\ delivered' = IF r.result.status = "Ok" /\ r.result.value # <<>>
                          THEN Append(delivered, r.result.value[1])
                          ELSE delivered
    /\ pulls' = pulls + 1
    /\ prev_op' = last_op
    /\ last_op' = "next_batch"
    /\ UNCHANGED <<failing, stmt, stmt_last, last_query_set>>
    /\ UNCHANGED rs_vars
    /\ UNCHANGED rest_vars

StmtStep(op, r) ==
    /\ stmt' = r.self
    /\ stmt_last' = [op |-> op, result |-> r.result, before |-> stmt]
    /\ prev_op' = last_op
    /\ last_op' = op
    /\ UNCHANGED <<reader, reader_result, pulls, delivered, failing>>
    /\ UNCHANGED rs_vars
    /\ UNCHANGED rest_vars

\* stmt.set_sql_query(q)
SetSqlQuery ==
    \E q \in Queries :
        /\ StmtStep("set_sql_query", StatementSetSqlQuery(stmt, q))
        /\ last_query_set' = q

\* Every other Statement operation: no query text is passed in.
StmtOther(op, r) == StmtStep(op, r) /\ UNCHANGED last_query_set

\* stmt.execute()
Execute == StmtOther("execute", StatementExecute(stmt))

\* stmt.cancel()
Cancel == StmtOther("cancel", StatementCancel(stmt))

\* The ResultSet while the Statement and the reader are exercised.
IdleRS ==
    /\ rs = ResultSetEmpty
    /\ rs_log = <<>>
    /\ rs_ctor = [ctor |-> "empty", schema |-> None, batches |-> <<>>]

Init == InitStream /\ IdleRS /\ IdleRest

Next == NextBatch \/ SetSqlQuery \/ Execute \/ Cancel

Spec == Init /\ [][Next]_vars

\* -------------------------------------------------------------- ResultSet
\* The Statement and the reader while the ResultSet is exercised.
IdleStream ==
    /\ reader = CloudFetchReaderNew(CloudFetchConfigDefault, <<>>)
    /\ failing = NoChunk
    /\ reader_result = NoResult
    /\ pulls = 0
    /\ delivered = <<>>
    /\ stmt = StatementNew
    /\ stmt_last = [op |-> "new", result |-> NoResult, before |-> StatementNew]
    /\ last_op = "new"
    /\ prev_op = "new"
    /\ last_query_set = None

\* The constructor calls: empty(), or new(schema, batches).
ResultSetCtors ==
    {[ctor |-> "empty", schema |-> None, batches |-> <<>>]} \cup
    [ctor : {"new"}, schema : Schemas, batches : BatchLists]

InitRS ==
    /\ rs_ctor \in ResultSetCtors
    /\ rs = IF rs_ctor.ctor = "empty"
            THEN ResultSetEmpty
            ELSE ResultSetNew(rs_ctor.schema, rs_ctor.batches)
    /\ rs_log = <<>>

InitResultSet == InitRS /\ IdleStream /\ IdleRest

\* One entry of rs_log: the operation, what it returned, the position of the
\* batch it handed out (NoChunk when it handed out none) and the ResultSet
\* it left.
RSStep(op, r) ==
    /\ Len(rs_log) < MaxSteps
    /\ rs' = r.self
    /\ rs_log' = Append(rs_log,
                        [op |-> op, result |-> r.result,
                         index |-> IF r.result.value # <<>>
                                   THEN rs.current_index ELSE NoChunk,
                         after |-> r.self])
    /\ UNCHANGED rs_ctor
    /\ UNCHANGED stream_vars
    /\ UNCHANGED rest_vars

\* rs.next_batch()
RSNextBatch == RSStep("next_batch", ResultSetNextBatch(rs))

\* rs.reset()
RSReset == RSStep("reset", ResultSetReset(rs))

\* rs.close()
RSClose == RSStep("close", ResultSetClose(rs))

NextResultSet == RSNextBatch \/ RSReset \/ RSClose

SpecResultSet == InitResultSet /\ [][NextResultSet]_vars

\* -------------------------------------------------------------- Statement
\* Every operation of the Statement, on a Statement made by Statement::new().
InitStatement == IdleStream /\ IdleRS /\ IdleRest

SetSubstraitPlan == StmtOther("set_substrait_plan", StatementSetSubstraitPlan(stmt))
Prepare == StmtOther("prepare", StatementPrepare(stmt))
GetParameterSchema ==
    StmtOther("get_parameter_schema", StatementGetParameterSchema(stmt))
Bind == StmtOther("bind", StatementBind(stmt))
BindStream == StmtOther("bind_stream", StatementBindStream(stmt))
ExecuteUpdate == StmtOther("execute_update", StatementExecuteUpdate(stmt))
ExecuteSchema == StmtOther("execute_schema", StatementExecuteSchema(stmt))
ExecutePartitions ==
    StmtOther("execute_partitions", StatementExecutePartitions(stmt))

\* stmt.set_option(key, value)
StmtSetOption ==
    \E k \in StatementOptionKeys, v \in OptionValues :
        StmtOther("set_option", StatementSetOption(stmt, k, v))

\* stmt.get_option_string / _bytes / _int / _double (key)
StmtGetOption ==
    \E k \in StatementOptionKeys :
        StmtOther("get_option", StatementGetOption(stmt, k))

NextStatement ==
    \/ SetSqlQuery \/ Execute \/ Cancel
    \/ SetSubstraitPlan \/ Prepare \/ GetParameterSchema \/ Bind \/ BindStream
    \/ ExecuteUpdate \/ ExecuteSchema \/ ExecutePartitions
    \/ StmtSetOption \/ StmtGetOption

SpecStatement == InitStatement /\ [][NextStatement]_vars

\* ---------------------------------------------------- Driver and Database
InitDatabase == InitDb /\ IdleConn /\ IdleAuth /\ IdleStream /\ IdleRS

\* db.set_option(key, value)
DbSetOption ==
    /\ built = NoBuilt
    /\ Len(db_opts) < MaxOpts
    /\ \E k \in DatabaseKeys, v \in DatabaseValues :
          LET r == DatabaseSetOption(db, k, v) IN
             /\ db' = r.self
             /\ db_opts' = Append(db_opts, [key |-> k, value |-> v])
             /\ db_set' = IF r.result.status = "Ok"
                          THEN [db_set EXCEPT ![k.name] = v.s]
                          ELSE db_set
             /\ db_first_err' = IF r.result.status # "Ok" /\ db_first_err = NoResult
                                THEN r.result
                                ELSE db_first_err
             /\ db_last' = [op |-> "set_option", key |-> k, value |-> v,
                            result |-> r.result, before |-> db]
    /\ UNCHANGED <<built, db_get>>
    /\ UNCHANGED <<stream_vars, rs_vars, conn_vars, auth_vars>>

\* driver.new_database_with_opts(db_opts): the same calls, made by the driver.
NewDatabaseWithOpts ==
    /\ built = NoBuilt
    /\ built' = DriverNewDatabaseWithOpts(db_opts)
    /\ UNCHANGED <<db, db_opts, db_set, db_first_err, db_last, db_get>>
    /\ UNCHANGED <<stream_vars, rs_vars, conn_vars, auth_vars>>

NextDatabase == DbSetOption \/ NewDatabaseWithOpts

SpecDatabase == InitDatabase /\ [][NextDatabase]_vars

\* ------------------------------------------------------------- Connection
\* A Connection made by new_connection() of any Database.
InitConnection ==
    /\ \E d \in Databases :
          /\ conn = DatabaseNewConnection(d).connection[1]
          /\ conn_db = <<d>>
    /\ conn_last = ConnMade(conn)
    /\ conn_stmt = <<>>
    /\ InitDb /\ IdleAuth /\ IdleStream /\ IdleRS

ConnCall(op, k, v, r) ==
    /\ conn' = r.self
    /\ conn_last' = [op |-> op, key |-> k, value |-> v,
                     result |-> r.result, before |-> conn]
    /\ UNCHANGED conn_db
    /\ UNCHANGED <<stream_vars, rs_vars, db_vars, auth_vars>>

\* Every operation but new_statement: no Statement is made.
ConnStep(op, k, v, r) == ConnCall(op, k, v, r) /\ UNCHANGED conn_stmt

\* Operations that take no option.
ConnOp(op, r) == ConnStep(op, NoOption.key, NoOption.value, r)

\* conn.set_option(key, value)
ConnSetOption ==
    \E k \in ConnectionKeys, v \in OptionValues :
        ConnStep("set_option", k, v, ConnectionSetOption(conn, k, v))

\* conn.get_option_string / _bytes / _int / _double (key)
ConnGetOption ==
    \E k \in ConnectionKeys :
        ConnStep("get_option", k, NoOption.value, ConnectionGetOption(conn, k))

\* conn.new_statement()
ConnNewStatement ==
    LET r == ConnectionNewStatement(conn) IN
       /\ ConnCall("new_statement", NoOption.key, NoOption.value, r)
       /\ conn_stmt' = r.result.value
ConnCancel == ConnOp("cancel", ConnectionCancel(conn))
ConnCommit == ConnOp("commit", ConnectionCommit(conn))
ConnRollback == ConnOp("rollback", ConnectionRollback(conn))
ConnMetadata ==
    \E op \in ConnectionMetadataOps : ConnOp(op, ConnectionMetadata(conn, op))

NextConnection ==
    \/ ConnSetOption \/ ConnGetOption \/ ConnNewStatement \/ ConnCancel
    \/ ConnCommit \/ ConnRollback \/ ConnMetadata

SpecConnection == InitConnection /\ [][NextConnection]_vars

\* ------------------------------------------------------------------- auth
\* A provider made by PersonalAccessToken::new or OAuthCredentials::new.
InitAuth ==
    /\ auth \in {PersonalAccessTokenNew(t) : t \in Tokens} \cup
                 {OAuthCredentialsNew(i, c) : i \in ClientIds, c \in ClientSecrets}
    /\ auth_last = NoResult
    /\ auth_calls = 0
    /\ InitDb /\ IdleConn /\ IdleStream /\ IdleRS

\* oauth.with_token_endpoint(endpoint)
WithTokenEndpoint ==
    /\ auth.kind = "oauth"
    /\ \E e \in TokenEndpoints : auth' = with_token_endpoint(auth, e)
    /\ UNCHANGED <<auth_last, auth_calls>>
    /\ UNCHANGED <<stream_vars, rs_vars, db_vars, conn_vars>>

\* provider.get_auth_header()
AuthGetHeader ==
    /\ auth_calls < MaxAuthCalls
    /\ auth_last' = GetAuthHeader(auth)
    /\ auth_calls' = auth_calls + 1
    /\ UNCHANGED auth
    /\ UNCHANGED <<stream_vars, rs_vars, db_vars, conn_vars>>

NextAuth == WithTokenEndpoint \/ AuthGetHeader

SpecAuth == InitAuth /\ [][NextAuth]_vars

\* ------------------------------------------------- reading the options
\* db.set_option(key, value), with no record kept of the call. The getters
\* take &self and write nothing, so a read made between two sets returns
\* what it returns as the last call after the sets before it: the sets are
\* explored first, the reads after them.
DbSet ==
    /\ db_get = NoGet
    /\ \E k \in DatabaseKeys, v \in DatabaseValues :
          db' = DatabaseSetOption(db, k, v).self
    /\ UNCHANGED <<db_opts, db_set, db_first_err, db_last, built, db_get>>
    /\ UNCHANGED <<stream_vars, rs_vars, conn_vars, auth_vars>>

\* db.get_option_string / _bytes / _int / _double (key): &self, the Database
\* is only read.
DbGetOption ==
    /\ \E kind \in GetKinds, k \in DatabaseKeys :
          db_get' = [kind |-> kind, key |-> k,
                     result |-> DatabaseGetOption(kind, db, k), before |-> db]
    /\ UNCHANGED <<db, db_opts, db_set, db_first_err, db_last, built>>
    /\ UNCHANGED <<stream_vars, rs_vars, conn_vars, auth_vars>>

NextOptions == DbSet \/ DbGetOption

SpecOptions == InitDatabase /\ [][NextOptions]_vars

\* --------------------------------- Database, Connection and its Statement
\* db.new_connection(): conn is the Connection returned.
NewConnection ==
    /\ LET r == DatabaseNewConnection(db) IN
          /\ r.result = OkUnit
          /\ conn' = r.connection[1]
          /\ conn_last' = ConnMade(r.connection[1])
    /\ conn_db' = <<db>>
    /\ conn_stmt' = <<>>
    /\ UNCHANGED <<stream_vars, rs_vars, db_vars, auth_vars>>

\* conn.new_statement(), once new_connection has made conn.
SnapNewStatement == conn_db # <<>> /\ ConnNewStatement

\* set_sql_query(q) on the Statement that conn.new_statement() made.
ConnStmtSetSqlQuery ==
    /\ conn_stmt # <<>>
    /\ \E q \in Queries :
          conn_stmt' = <<StatementSetSqlQuery(conn_stmt[1], q).self>>
    /\ UNCHANGED <<conn, conn_last, conn_db>>
    /\ UNCHANGED <<stream_vars, rs_vars, db_vars, auth_vars>>

NextSnapshot == DbSet \/ NewConnection \/ SnapNewStatement \/ ConnStmtSetSqlQuery

SpecSnapshot == InitDatabase /\ [][NextSnapshot]_vars

\* ================================================================ claims
IsError(r) == r.status \notin {"Ok", "NoResult"}
Undelivered(self) == self.current_index < Len(self.links)
Upto(k) == [i \in 1..k |-> i - 1]

\* C3: a CloudFetchReader built over an empty link list returns Ok(None) on
\* its first next_batch and on every later one; it hands out no batch,
\* returns no error and its position stays 0.
C3_EmptyLinksEndOfStream ==
    (Len(reader.links) = 0 /\ pulls >= 1) =>
        /\ reader_result = OkNone
        /\ delivered = <<>>
        /\ reader.current_index = 0

C3_Witness == Len(reader.links) = 0 /\ pulls >= 2 /\ reader_result = OkNone

\* C4 (as claimed): the pull that follows Statement::cancel on a stream that
\* still has undelivered chunks returns a Cancelled error.
C4_PullAfterCancelIsCancelled ==
    (prev_op = "cancel" /\ last_op = "next_batch" /\ Undelivered(reader)) =>
        reader_result.status = "Cancelled"

\* C5 (as claimed): when the stream yields the failure of the chunk at
\* index k, the batches of chunks 0..k-1 have been delivered, in order, and
\* nothing else.
C5_FailureAfterEarlierBatches ==
    (failing # NoChunk /\ IsError(reader_result)) =>
        delivered = Upto(failing)

\* C6 (as claimed): 5 links, parallel_downloads = 2, prefetch_count = 1, no
\* failing chunk: six pulls deliver batches 0,1,2,3,4 and then end-of-stream.
C6_FiveChunksInOrder ==
    (/\ Len(reader.links) = 5
     /\ reader.config.parallel_downloads = 2
     /\ reader.config.prefetch_count = 1
     /\ failing = NoChunk
     /\ pulls = 6) =>
        /\ delivered = Upto(5)
        /\ reader_result = OkNone

\* C7: two close() calls in a row on a ResultSet both return Ok, and the
\* second leaves the ResultSet exactly as the first left it.
C7_CloseIdempotent ==
    \A i \in 1..(Len(rs_log) - 1) :
        (rs_log[i].op = "close" /\ rs_log[i + 1].op = "close") =>
            /\ rs_log[i].result = OkUnit
            /\ rs_log[i + 1].result = OkUnit
            /\ rs_log[i + 1].after = rs_log[i].after

\* close, close on a ResultSet that held batches and had its cursor advanced.
C7_Witness ==
    \E i \in 2..(Len(rs_log) - 1) :
        /\ rs_log[i].op = "close"
        /\ rs_log[i + 1].op = "close"
        /\ Len(rs_log[i - 1].after.batches) >= 2
        /\ rs_log[i - 1].after.current_index >= 1

C9_CancelLeavesCancelled ==
    stmt_last.op = "cancel" =>
        /\ stmt_last.result = OkUnit
        /\ StatementState(stmt) = "Cancelled"

\* C10: execute returns the NotImplemented error, never a reader, whether
\* or not a query is set and however often it is called, and the query text
\* after it is the query text before it.
C10_ExecuteNotImplemented ==
    stmt_last.op = "execute" =>
        /\ stmt_last.result.status = "NotImplemented"
        /\ stmt_last.result.value = <<>>
        /\ sql_query(stmt) = sql_query(stmt_last.before)

\* execute called twice in a row with a query set.
C10_Witness ==
    /\ stmt_last.op = "execute"
    /\ prev_op = "execute"
    /\ sql_query(stmt) \in Queries

UnsupportedOps ==
    {"set_substrait_plan", "prepare", "get_parameter_schema", "bind",
     "bind_stream", "execute_update", "execute_schema", "execute_partitions"}

\* The operations whose Ok value is a result stream.
StreamOps == {"execute", "execute_partitions"}
YieldsStream(last) == last.op \in StreamOps /\ last.result.status = "Ok"

\* C11: an operation of the Statement hands a result stream to the caller
\* only if the Statement's query was in the Succeeded state when it was
\* called; for a query not set, not submitted, failed or cancelled no
\* operation yields a stream.
C11_StreamOnlyWhenSucceeded ==
    YieldsStream(stmt_last) => StatementState(stmt_last.before) = "Succeeded"

\* execute on a Statement with a query set, right after a cancel.
C11_Witness ==
    /\ stmt_last.op = "execute"
    /\ prev_op = "cancel"
    /\ sql_query(stmt_last.before) \in Queries
    /\ ~YieldsStream(stmt_last)

\* C12: set_sql_query returns Ok in every state, and sql_query() is the text
\* of the most recent set_sql_query call (None when there was none), whatever
\* other operations were called since.
C12_QueryIsLatestSet ==
    /\ sql_query(stmt) = last_query_set
    /\ stmt_last.op = "set_sql_query" => stmt_last.result = OkUnit

\* A set_sql_query("SELECT 2") followed by another operation, the query
\* still reading "SELECT 2".
C12_Witness ==
    /\ prev_op = "set_sql_query"
    /\ last_op \in {"execute", "cancel", "prepare", "bind", "set_option"}
    /\ sql_query(stmt_last.before) = "SELECT 2"
    /\ last_query_set = "SELECT 2"

\* C17: each unsupported Statement feature returns the NotImplemented error
\* and leaves the Statement as it was.
C17_UnsupportedNotImplemented ==
    stmt_last.op \in UnsupportedOps =>
        /\ stmt_last.result.status = "NotImplemented"
        /\ stmt_last.result.value = <<>>
        /\ stmt = stmt_last.before

\* prepare on a Statement with a query set.
C17_Witness ==
    /\ stmt_last.op = "prepare"
    /\ sql_query(stmt_last.before) \in Queries
    /\ stmt_last.result.status = "NotImplemented"

\* C18: schema() of a ResultSet made by new(schema, batches) is that schema
\* before any batch is pulled and after every next_batch, reset and close;
\* schema() of a ResultSet made by empty() is None throughout.
C18_SchemaKept ==
    /\ schema(rs) = rs_ctor.schema
    /\ \A i \in DOMAIN rs_log : schema(rs_log[i].after) = rs_ctor.schema
    /\ rs_ctor.ctor = "empty" => schema(rs) = None

\* A ResultSet made by new, after a next_batch, a reset and a close.
C18_Witness ==
    /\ rs_ctor.ctor = "new"
    /\ rs_ctor.batches # <<>>
    /\ schema(rs) \in Schemas
    /\ \A op \in {"next_batch", "reset", "close"} :
          \E i \in DOMAIN rs_log : rs_log[i].op = op

\* C19: while only next_batch has been called on a ResultSet made with n
\* batches, the i-th call returned the i-th stored batch for i <= n and
\* Ok(None) for every i > n.
C19_BatchesInStoredOrder ==
    (\A i \in DOMAIN rs_log : rs_log[i].op = "next_batch") =>
        \A i \in DOMAIN rs_log :
            rs_log[i].result = IF i <= Len(rs_ctor.batches)
                               THEN OkSome(rs_ctor.batches[i])
                               ELSE OkNone

\* Three stored batches, not all equal, pulled by five next_batch calls.
C19_Witness ==
    /\ Len(rs_ctor.batches) = 3
    /\ rs_ctor.batches[1] # rs_ctor.batches[3]
    /\ Len(rs_log) = 5
    /\ \A i \in DOMAIN rs_log : rs_log[i].op = "next_batch"
    /\ rs_log[3].result = OkSome(rs_ctor.batches[3])
    /\ rs_log[5].result = OkNone

ReadableKeys == {KeyUri, KeyHttpPath, KeyCatalog, KeySchema}

\* C13: for uri, databricks.http_path, databricks.catalog and
\* databricks.schema, get_option_string returns the text of the most recent
\* successful set_option of that same key, whatever was set on other keys.
C13_GetReturnsLatestSet ==
    \A k \in ReadableKeys :
        db_set[k.name] # None =>
            DatabaseGetOptionString(db, k) = OkSome(db_set[k.name])

\* databricks.catalog set twice with different texts, then another key set.
C13_Witness ==
    /\ Len(db_opts) = 3
    /\ db_opts[1] = [key |-> KeyCatalog, value |-> [type |-> "String", s |-> "x"]]
    /\ db_opts[2] = [key |-> KeyCatalog, value |-> [type |-> "String", s |-> "y"]]
    /\ db_opts[3] = [key |-> KeySchema, value |-> [type |-> "String", s |-> "x"]]
    /\ DatabaseGetOptionString(db, KeyCatalog) = OkSome("y")

\* The eight options of the configuration, and the type of a well-typed
\* value of each.
RecognizedKeys ==
    {KeyUri, KeyHttpPath, KeyAccessToken, KeyCatalog, KeySchema,
     KeyParallelDownloads, KeyPrefetchCount, KeyMaxBufferSize}
WellTyped(key, value) ==
    IF key \in {KeyParallelDownloads, KeyPrefetchCount, KeyMaxBufferSize}
    THEN value.type = "Int"
    ELSE value.type = "String"

\* C14 (as claimed): set_option of any of the eight recognized options with
\* a well-typed value succeeds.
C14_AllEightAccepted ==
    (/\ db_last.op = "set_option"
     /\ db_last.key \in RecognizedKeys
     /\ WellTyped(db_last.key, db_last.value)) =>
        db_last.result = OkUnit

\* C20: new_database_with_opts(opts) returns the Database that
\* new_database() and the set_option calls of opts, made in order, leave,
\* when every call succeeds; otherwise it returns the error of the first
\* call that failed and no Database.
C20_WithOptsIsSetOptionInOrder ==
    built # NoBuilt =>
        IF db_first_err = NoResult
        THEN built = OkDatabase(db)
        ELSE built = ErrDatabase(db_first_err)

\* Three options of which the second is rejected, passed to
\* new_database_with_opts.
C20_Witness ==
    /\ built # NoBuilt
    /\ Len(db_opts) = 3
    /\ DatabaseSetOption(DatabaseNew, db_opts[1].key, db_opts[1].value).result = OkUnit
    /\ db_first_err # NoResult
    /\ db_last.result = OkUnit
    /\ built.database = <<>>

SameConfiguration(a, b) ==
    /\ a.uri = b.uri
    /\ a.http_path = b.http_path
    /\ a.catalog = b.catalog
    /\ a.schema = b.schema

\* C15: on a Connection commit returns Ok, rollback returns the
\* NotImplemented error and set_option(AutoCommit, value) returns Ok for
\* every value; none of the three changes uri, http_path, catalog or schema.
C15_AutoCommitOnly ==
    /\ conn_last.op = "commit" =>
          conn_last.result = OkUnit /\ SameConfiguration(conn, conn_last.before)
    /\ conn_last.op = "rollback" =>
          /\ conn_last.result.status = "NotImplemented"
          /\ SameConfiguration(conn, conn_last.before)
    /\ (conn_last.op = "set_option" /\ conn_last.key = KeyAutoCommit) =>
          conn_last.result = OkUnit /\ SameConfiguration(conn, conn_last.before)

\* rollback on a Connection whose uri and catalog are set.
C15_Witness ==
    /\ conn_last.op = "rollback"
    /\ conn.uri \in Strings
    /\ conn.catalog \in Strings
    /\ conn_last.result.status = "NotImplemented"

\* C16: every get_auth_header of a PersonalAccessToken built from token t
\* returns Ok("Bearer " followed by t); every get_auth_header of an
\* OAuthCredentials returns an error, whatever it was built with.
C16_AuthHeaderPerProvider ==
    auth_calls >= 1 =>
        IF auth.kind = "pat"
        THEN auth_last = OkSome("Bearer " \o auth.token)
        ELSE IsError(auth_last) /\ auth_last.value = <<>>

\* The header of the token "test-token" returned by a second call.
C16_Witness ==
    /\ auth_calls >= 2
    /\ auth.kind = "pat"
    /\ auth.token = "test-token"
    /\ auth_last = OkSome("Bearer test-token")

\* The cursor of a ResultSet is a position of its batch list, or one past
\* the last.
CursorInRange(self) ==
    0 <= self.current_index /\ self.current_index <= Len(self.batches)

\* The ResultSet that the i-th logged operation was applied to.
RsBefore(i) ==
    IF i = 1
    THEN (IF rs_ctor.ctor = "empty"
          THEN ResultSetEmpty
          ELSE ResultSetNew(rs_ctor.schema, rs_ctor.batches))
    ELSE rs_log[i - 1].after

\* C21: after any sequence of next_batch, reset and close the cursor of the
\* ResultSet is between 0 and the number of stored batches, and every batch
\* that next_batch handed out was read at a position inside the list it was
\* applied to, also once close has emptied the list.
C21_CursorWithinBatches ==
    /\ CursorInRange(rs)
    /\ \A i \in DOMAIN rs_log :
          /\ CursorInRange(rs_log[i].after)
          /\ rs_log[i].result.value # <<>> =>
                /\ rs_log[i].op = "next_batch"
                /\ 0 <= rs_log[i].index
                /\ rs_log[i].index < Len(RsBefore(i).batches)

\* The cursor at the end of a list of three batches, then close, then
\* next_batch on the emptied list.
C21_Witness ==
    /\ Len(rs_ctor.batches) = 3
    /\ Len(rs_log) = 5
    /\ rs_log[3].after.current_index = 3
    /\ rs_log[4].op = "close"
    /\ rs_log[5].op = "next_batch"
    /\ rs_log[5].result = OkNone
    /\ rs.batches = <<>>
    /\ rs.current_index = 0

\* C22: next_batch never changes the links, the configuration or the
\* position of a CloudFetchReader; with at least one link, every next_batch
\* returns the NotImplemented error, and the reader neither reaches the end
\* of the stream nor hands out a batch, however often it is pulled.
C22_NextBatchLeavesReader ==
    /\ [][reader' = reader]_vars
    /\ [](/\ reader.current_index = 0
          /\ (Len(reader.links) >= 1 /\ pulls >= 1) =>
                /\ reader_result = NotImplemented("CloudFetch download")
                /\ delivered = <<>>)

\* A reader of three links pulled MaxPulls times.
C22_Witness ==
    /\ Len(reader.links) = 3
    /\ pulls = MaxPulls
    /\ reader_result = NotImplemented("CloudFetch download")
    /\ delivered = <<>>

\* The keys that set_option has an arm for.
SettableKeys == {KeyUri, KeyHttpPath, KeyAccessToken, KeyCatalog, KeySchema}

\* C23: set_option with a key it has no arm for, or with a value that is not
\* a string, returns an error; and every set_option that returns an error
\* leaves uri, http_path, access_token, catalog and schema as they were.
C23_FailedSetOptionLeavesDatabase ==
    db_last.op = "set_option" =>
        /\ (db_last.key \notin SettableKeys \/ db_last.value.type # "String") =>
              IsError(db_last.result)
        /\ IsError(db_last.result) =>
              /\ db.uri = db_last.before.uri
              /\ db.http_path = db_last.before.http_path
              /\ db.access_token = db_last.before.access_token
              /\ db.catalog = db_last.before.catalog
              /\ db.schema = db_last.before.schema

\* databricks.catalog set to a text, then set again with an integer.
C23_Witness ==
    /\ db_last.op = "set_option"
    /\ db_last.key = KeyCatalog
    /\ db_last.value.type = "Int"
    /\ db_last.before.catalog \in Strings
    /\ db_last.result.status = "InvalidOption"
    /\ db.catalog = db_last.before.catalog

\* The field of the Database that a readable key names.
FieldOf(self, key) ==
    CASE key = KeyUri -> self.uri
      [] key = KeyHttpPath -> self.http_path
      [] key = KeyCatalog -> self.catalog
      [] OTHER -> self.schema

\* C24: no getter of the Database returns the access token: a read of
\* databricks.access_token is an unknown option for all four getters, and
\* what any getter returns for any key is what it returns on the same
\* Database with no token set; get_option_string of uri, http_path, catalog
\* or schema that was never set is the invalid-state error, not a text.
C24_AccessTokenWriteOnly ==
    db_get.kind # "none" =>
        /\ db_get.key = KeyAccessToken =>
              /\ db_get.result.status = "UnknownOption"
              /\ db_get.result.value = <<>>
        /\ db_get.result =
              DatabaseGetOption(db_get.kind,
                                [db_get.before EXCEPT !.access_token = None],
                                db_get.key)
        /\ db_get.kind # "string" => db_get.result.status = "UnknownOption"
        /\ (/\ db_get.kind = "string"
            /\ db_get.key \in ReadableKeys
            /\ FieldOf(db_get.before, db_get.key) = None) =>
              /\ db_get.result.status = "InvalidState"
              /\ db_get.result.value = <<>>

\* get_option_string(databricks.access_token) once the token and the uri
\* are set and the catalog is not.
C24_Witness ==
    /\ db_get.kind = "string"
    /\ db_get.key = KeyAccessToken
    /\ db_get.before.access_token \in Strings
    /\ db_get.before.uri \in Strings
    /\ db_get.before.catalog = None
    /\ db_get.result.status = "UnknownOption"
    /\ DatabaseGetOptionString(db_get.before, KeyCatalog).status = "InvalidState"

\* C25: the Connection that new_connection returns has the uri, http_path,
\* catalog and schema the Database had at the call and keeps them; a later
\* set_option on the Database changes neither the Connection nor the
\* Statement made from it; new_connection leaves the Database as it was.
C25_ConnectionIsSnapshot ==
    /\ [](conn_db # <<>> => SameConfiguration(conn, conn_db[1]))
    /\ [][db' # db => conn' = conn /\ conn_stmt' = conn_stmt]_vars
    /\ [][(conn' # conn \/ conn_db' # conn_db) => db' = db]_vars

\* A Connection made with catalog and schema set to different texts, a
\* Statement made from it and given a query, and the catalog of the
\* Database set to another text afterwards.
C25_Witness ==
    /\ conn_db # <<>>
    /\ conn.catalog \in Strings
    /\ conn.schema \in Strings
    /\ conn.catalog # conn.schema
    /\ conn.uri \in Strings
    /\ db.catalog \in Strings
    /\ db.catalog # conn.catalog
    /\ conn_stmt # <<>>
    /\ conn_stmt[1].query \in Queries

====
